---------------------------- MODULE Spec2Model ----------------------------
(***************************************************************************)
(* Correlation mining, trace-based version                                 *)
(* (pm4py/algo/discovery/correlation_mining/versions/trace_based.py).      *)
(*                                                                         *)
(* Three specifications share the variables of this module:                *)
(*   Spec     the estimators get_precede_succeed_matrix and                *)
(*            get_duration_matrix applied to a growing log;                *)
(*   ScanSpec the three two-pointer scans of one pair of occurrence lists  *)
(*            (ai, aj) of one trace, one loop iteration per step;          *)
(*   PreSpec  preprocess_log and apply called on a raw log.                *)
(*                                                                         *)
(* Numbers.  Timestamps are naturals (whole seconds).  A float result of   *)
(* the code is modelled by the exact rational <<num, den>>, den > 0, that  *)
(* the float approximates: count / float(total) is <<count, total>>, a     *)
(* mean is <<sum, length>>, 0.0 is <<0, 1>>.  Rounding is not modelled.    *)
(* Python indices are 0-based and kept so in the pointers k and z; the     *)
(* element x[k] of the code is x[k + 1] here.                              *)
(***************************************************************************)
EXTENDS Integers, Sequences, FiniteSets, TLC

VARIABLES
    \* --- Spec: the estimators
    traces_list,          \* per case, the events sorted by timestamp
    activities,           \* sorted list of the activity labels of the log
    trace_grouped_list,   \* per trace and activity, the events of the activity
    PS_matrix,            \* last result of get_precede_succeed_matrix
    duration_matrix,      \* last result of get_duration_matrix
    \* --- ScanSpec: one pair of lists of one trace
    ai, aj,               \* the timestamps of activity i and of activity j
    phase,                \* "start", "ps", "fifo", "lifo", "done"
    sc,                   \* the locals of the running scan: k, z, count/times
    out,                  \* what the finished scans produced
    moves,                \* ghost: pointer moves of the running scan
    matched,              \* ghost: the (k, z) pairs whose gap was recorded
    \* --- PreSpec: preprocess_log and apply
    log,                  \* the raw log: cases of events in recorded order
    pp,                   \* the call of preprocess_log: locals and return value
    ap                    \* the call of apply: its outcome

logVars  == <<traces_list, activities, trace_grouped_list, PS_matrix, duration_matrix>>
scanVars == <<ai, aj, phase, sc, out, moves, matched>>
preVars  == <<log, pp, ap>>
vars     == <<traces_list, activities, trace_grouped_list, PS_matrix, duration_matrix,
              ai, aj, phase, sc, out, moves, matched, log, pp, ap>>

----------------------------------------------------------------------------
(* Bounds of the model *)

\* Spec: events in the whole log, and the largest timestamp
MaxEvents == 4

LogMaxTime == 2

\* ScanSpec: occurrences of one activity in one trace, and the largest timestamp
MaxOcc == 3

ScanMaxTime == 3

\* PreSpec: cases of the raw log, events of one case, and the largest minute
\* of an event's time
MaxCases == 2

MaxCaseLen == 2

MaxMinute == 1

\* The activity labels; a label is modelled by its rank in the sort order of
\* the labels, so that sorted(labels) is the ascending order of the numbers.
\* Two labels give every alphabet of size 0, 1 and 2 and both index orders of
\* a pair; the estimators treat each pair of indices on its own.
Labels == {1, 2}

----------------------------------------------------------------------------
(* Arithmetic helpers *)

Min(S) == CHOOSE x \in S : \A y \in S : x <= y

Max(S) == CHOOSE x \in S : \A y \in S : x >= y

RECURSIVE SumSeq(_)
SumSeq(s) == IF s = <<>> THEN 0 ELSE Head(s) + SumSeq(Tail(s))

Range(s) == {s[n] : n \in DOMAIN s}

\* Comparison of the rationals <<num, den>>, den > 0
RatEq(a, b) == a[1] * b[2] = b[1] * a[2]

RatLeq(a, b) == a[1] * b[2] <= b[1] * a[2]

Zero == <<0, 1>>

One == <<1, 1>>

NonDecreasing(s) == \A n \in 1..(Len(s) - 1) : s[n] <= s[n + 1]

\* The sequences over S of length lo..hi
SeqsOf(S, lo, hi) == UNION {[1..m -> S] : m \in lo..hi}

----------------------------------------------------------------------------
(* The scan of get_precede_succeed_matrix, lines 120-128.                  *)
(* s = [k, z, count] are the locals; count is the accumulator of the pair, *)
(* carried from trace to trace.                                            *)

PSInit(count) == [k |-> 0, z |-> 0, count |-> count]

\* line 122: the outer loop runs while k < len(ai)
PSDone(a, s) == s.k >= Len(a)

\* lines 123-126: the inner loop goes round once more (no break): z = z + 1
PSSkips(a, b, s) == s.z < Len(b) /\ ~(a[s.k + 1] < b[s.z + 1])

\* Mutants of PSStep: the comparison of line 124 made non-strict; line 127
\* counting the passed elements of aj instead of the remaining ones
PSStepNonStrict(a, b, s) ==
    IF s.z < Len(b) /\ ~(a[s.k + 1] <= b[s.z + 1])
    THEN [s EXCEPT !.z = @ + 1]
    ELSE [s EXCEPT !.count = @ + (Len(b) - s.z), !.k = @ + 1]

PSStepCountPassed(a, b, s) ==
    IF PSSkips(a, b, s)
    THEN [s EXCEPT !.z = @ + 1]
    ELSE [s EXCEPT !.count = @ + s.z, !.k = @ + 1]

\* Mutant of PSStep: z set back to 0 for the next element of ai
PSStepRewind(a, b, s) ==
    IF PSSkips(a, b, s)
    THEN [s EXCEPT !.z = @ + 1]
    ELSE [s EXCEPT !.count = @ + (Len(b) - s.z), !.k = @ + 1, !.z = 0]

\* One iteration of a loop: either the inner loop passes aj[z] (line 126), or
\* it ends (break at line 125, or z = len(aj)) and lines 127-128 run.
PSStep(a, b, s) ==
    IF PSSkips(a, b, s)
    THEN [s EXCEPT !.z = @ + 1]
    ELSE [s EXCEPT !.count = @ + (Len(b) - s.z), !.k = @ + 1]

RECURSIVE PSRun(_, _, _)
PSRun(a, b, s) == IF PSDone(a, s) THEN s ELSE PSRun(a, b, PSStep(a, b, s))

----------------------------------------------------------------------------
(* The FIFO pass of get_duration_matrix, lines 164-173.                    *)
(* s = [k, z, times]; times is times0, carried from trace to trace.        *)

FIFOInit(times) == [k |-> 0, z |-> 0, times |-> times]

\* line 166
FIFODone(a, s) == s.k >= Len(a)

\* Mutant of FIFOStep: line 170 missing, aj[z] is not consumed by its match
FIFOStepReuse(a, b, s) ==
    IF s.z < Len(b)
    THEN IF a[s.k + 1] < b[s.z + 1]
         THEN [k |-> s.k + 1, z |-> s.z,
               times |-> Append(s.times, b[s.z + 1] - a[s.k + 1])]
         ELSE [s EXCEPT !.z = @ + 1]
    ELSE [s EXCEPT !.k = @ + 1]

\* One iteration: aj[z] is later than ai[k] (lines 169-171, then 173), or
\* aj[z] is passed (line 172), or aj is exhausted (line 173 alone).
FIFOStep(a, b, s) ==
    IF s.z < Len(b)
    THEN IF a[s.k + 1] < b[s.z + 1]
         THEN [k |-> s.k + 1, z |-> s.z + 1,
               times |-> Append(s.times, b[s.z + 1] - a[s.k + 1])]
         ELSE [s EXCEPT !.z = @ + 1]
    ELSE [s EXCEPT !.k = @ + 1]

RECURSIVE FIFORun(_, _, _)
FIFORun(a, b, s) == IF FIFODone(a, s) THEN s ELSE FIFORun(a, b, FIFOStep(a, b, s))

----------------------------------------------------------------------------
(* The LIFO pass of get_duration_matrix, lines 175-184.                    *)
(* s = [k, z, times]; times is times1.                                     *)

LIFOInit(a, b, times) == [k |-> Len(a) - 1, z |-> Len(b) - 1, times |-> times]

\* line 177: the outer loop runs while z >= 0
LIFODone(s) == s.z < 0

\* Mutant of LIFOStep: the comparison of line 179 made non-strict
LIFOStepNonStrict(a, b, s) ==
    IF s.k >= 0
    THEN IF a[s.k + 1] <= b[s.z + 1]
         THEN [k |-> s.k - 1, z |-> s.z - 1,
               times |-> Append(s.times, b[s.z + 1] - a[s.k + 1])]
         ELSE [s EXCEPT !.k = @ - 1]
    ELSE [s EXCEPT !.z = @ - 1]

\* One iteration: ai[k] is earlier than aj[z] (lines 180-182, then 184), or
\* ai[k] is passed (line 183), or ai is exhausted (line 184 alone).
LIFOStep(a, b, s) ==
    IF s.k >= 0
    THEN IF a[s.k + 1] < b[s.z + 1]
         THEN [k |-> s.k - 1, z |-> s.z - 1,
               times |-> Append(s.times, b[s.z + 1] - a[s.k + 1])]
         ELSE [s EXCEPT !.k = @ - 1]
    ELSE [s EXCEPT !.z = @ - 1]

RECURSIVE LIFORun(_, _, _)
LIFORun(a, b, s) == IF LIFODone(s) THEN s ELSE LIFORun(a, b, LIFOStep(a, b, s))

----------------------------------------------------------------------------
(* apply, lines 50-58: the alphabet and the grouping *)

RECURSIVE SortedSeq(_)
SortedSeq(S) == IF S = {} THEN <<>> ELSE <<Min(S)>> \o SortedSeq(S \ {Min(S)})

\* lines 50-51: the labels that occur in the log, sorted
SortedActivities(tl) ==
    SortedSeq(UNION {{tl[t][e].act : e \in DOMAIN tl[t]} : t \in DOMAIN tl})

\* lines 54-57: the events of one trace, one list per activity of the alphabet
GroupTrace(acts, trace) ==
    [a \in DOMAIN acts |-> SelectSeq(trace, LAMBDA x : x.act = acts[a])]

\* lines 52-58
GroupTraces(acts, tl) == [t \in DOMAIN tl |-> GroupTrace(acts, tl[t])]

\* lines 116-117 and 160-161: [x[timestamp_key] for x in tr[i]]
Timestamps(evs) == [n \in DOMAIN evs |-> evs[n].ts]

----------------------------------------------------------------------------
(* get_precede_succeed_matrix, lines 110-132 *)

\* Mutant of PSTrace: line 119 adding len(ai) + len(aj)
PSTraceSumTotal(a, b, acc) ==
    IF a # <<>> /\ b # <<>>
    THEN [count |-> PSRun(a, b, PSInit(acc.count)).count,
          total |-> acc.total + Len(a) + Len(b)]
    ELSE acc

\* lines 116-128 for one trace: acc = [count, total] of the pair so far
PSTrace(a, b, acc) ==
    IF a # <<>> /\ b # <<>>
    THEN [count |-> PSRun(a, b, PSInit(acc.count)).count,
          total |-> acc.total + Len(a) * Len(b)]
    ELSE acc

\* lines 113-128: the loop over the traces, from trace t on
RECURSIVE PSTraces(_, _, _, _, _)
PSTraces(tgl, i, j, t, acc) ==
    IF t > Len(tgl)
    THEN acc
    ELSE PSTraces(tgl, i, j, t + 1,
                  PSTrace(Timestamps(tgl[t][i]), Timestamps(tgl[t][j]), acc))

\* Mutant of PSEntry: a pair without evidence set to one half
PSEntryHalf(acc) == IF acc.total > 0 THEN <<acc.count, acc.total>> ELSE <<1, 2>>

\* lines 129-130; the cell keeps the 0 of np.zeros when total = 0
PSEntry(acc) == IF acc.total > 0 THEN <<acc.count, acc.total>> ELSE Zero

\* Mutant of PSComplement: ret[j, i] = ret[i, j]
PSComplementSymmetric(x) == x

\* line 131: 1.0 - ret[i, j]
PSComplement(x) == <<x[2] - x[1], x[2]>>

get_precede_succeed_matrix(acts, tgl) ==
    LET upper(i, j) == PSEntry(PSTraces(tgl, i, j, 1, [count |-> 0, total |-> 0]))
    IN  [i \in DOMAIN acts |->
            [j \in DOMAIN acts |->
                IF i < j THEN upper(i, j)
                ELSE IF j < i THEN PSComplement(upper(j, i))
                ELSE Zero]]

----------------------------------------------------------------------------
(* get_duration_matrix, lines 153-188 *)

\* lines 160-184 for one trace: acc = [times0, times1] of the pair so far
DurationTrace(a, b, acc) ==
    IF a # <<>> /\ b # <<>>
    THEN [times0 |-> FIFORun(a, b, FIFOInit(acc.times0)).times,
          times1 |-> LIFORun(a, b, LIFOInit(a, b, acc.times1)).times]
    ELSE acc

\* lines 157-184: the loop over the traces, from trace t on
RECURSIVE DurationTraces(_, _, _, _, _)
DurationTraces(tgl, i, j, t, acc) ==
    IF t > Len(tgl)
    THEN acc
    ELSE DurationTraces(tgl, i, j, t + 1,
                        DurationTrace(Timestamps(tgl[t][i]), Timestamps(tgl[t][j]), acc))

\* lines 185-186: mean(times) if times else 0
MeanOrZero(times) == IF times # <<>> THEN <<SumSeq(times), Len(times)>> ELSE Zero

\* Mutant of MinRat: max(times0, times1)
MinRatMax(x, y) == IF RatLeq(x, y) THEN y ELSE x

\* line 187: min(times0, times1)
MinRat(x, y) == IF RatLeq(x, y) THEN x ELSE y

get_duration_matrix(acts, tgl) ==
    LET cell(i, j) ==
            LET acc == DurationTraces(tgl, i, j, 1, [times0 |-> <<>>, times1 |-> <<>>])
            IN  MinRat(MeanOrZero(acc.times0), MeanOrZero(acc.times1))
    IN  [i \in DOMAIN acts |->
            [j \in DOMAIN acts |-> IF i # j THEN cell(i, j) ELSE Zero]]

----------------------------------------------------------------------------
(* Spec: the estimators on a growing log.                                  *)
(* The log holds the per-case event lists in the form lines 50-61 of apply *)
(* read them (each sorted by timestamp).  One step adds a case and runs    *)
(* lines 50-61 on the new log: the alphabet, the grouping and the two      *)
(* estimators.  Cases without events change nothing in either matrix and   *)
(* are left out.  The name traces_list is bound here, as for a caller that *)
(* hands the estimators the grouping of a sorted log; apply itself does    *)
(* not bind it (PreSpec below).                                            *)

Events == [act : Labels, ts : 0..LogMaxTime]

EventCount(tl) == SumSeq([t \in DOMAIN tl |-> Len(tl[t])])

IdleLog ==
    /\ traces_list = <<>>
    /\ activities = <<>>
    /\ trace_grouped_list = <<>>
    /\ PS_matrix = <<>>
    /\ duration_matrix = <<>>

IdleScan ==
    /\ ai = <<>>
    /\ aj = <<>>
    /\ phase = "idle"
    /\ sc = [k |-> 0, z |-> 0]
    /\ out = [count |-> 0, total |-> 0, times0 |-> <<>>, times1 |-> <<>>]
    /\ moves = 0
    /\ matched = [fifo |-> <<>>, lifo |-> <<>>]

IdlePre ==
    /\ log = <<>>
    /\ pp = [called |-> FALSE]
    /\ ap = [called |-> FALSE]

\* The log of zero cases: the alphabet and the grouping are empty and both
\* matrices are np.zeros((0, 0))
Init ==
    /\ traces_list = <<>>
    /\ activities = SortedActivities(traces_list)
    /\ trace_grouped_list = GroupTraces(activities, traces_list)
    /\ PS_matrix = get_precede_succeed_matrix(activities, trace_grouped_list)
    /\ duration_matrix = get_duration_matrix(activities, trace_grouped_list)
    /\ IdleScan
    /\ IdlePre

\* lines 50-61 on the log extended by the case tr
Estimate(tr) ==
    /\ NonDecreasing(Timestamps(tr))
    /\ traces_list' = Append(traces_list, tr)
    /\ activities' = SortedActivities(traces_list')
    /\ trace_grouped_list' = GroupTraces(activities', traces_list')
    /\ PS_matrix' = get_precede_succeed_matrix(activities', trace_grouped_list')
    /\ duration_matrix' = get_duration_matrix(activities', trace_grouped_list')
    /\ UNCHANGED scanVars
    /\ UNCHANGED preVars

\* The new case has at least one event and keeps the log within MaxEvents
Next ==
    \E n \in 1..(MaxEvents - EventCount(traces_list)) :
        \E tr \in [1..n -> Events] : Estimate(tr)

Spec == Init /\ [][Next]_vars

----------------------------------------------------------------------------
(* ScanSpec: the scans of one pair of occurrence lists of one trace, one   *)
(* loop iteration per step: the scan of get_precede_succeed_matrix, then   *)
(* the FIFO and the LIFO pass of get_duration_matrix.  The lists are in    *)
(* non-decreasing order, as the grouping of a sorted trace leaves them.    *)

ScanLists ==
    {l \in SeqsOf(0..ScanMaxTime, 0, MaxOcc) : NonDecreasing(l)}

Abs(n) == IF n < 0 THEN 0 - n ELSE n

\* ghost: the pointer moves of the step from s to t
Moved(s, t) == Abs(t.k - s.k) + Abs(t.z - s.z)

ScanInit ==
    /\ ai \in ScanLists
    /\ aj \in ScanLists
    /\ phase = "start"
    /\ sc = [k |-> 0, z |-> 0]
    /\ out = [count |-> 0, total |-> 0, times0 |-> <<>>, times1 |-> <<>>]
    /\ moves = 0
    /\ matched = [fifo |-> <<>>, lifo |-> <<>>]
    /\ IdleLog
    /\ IdlePre

\* lines 118 and 162: "if ai and aj" fails, the trace is passed over
ScanSkip ==
    /\ phase = "start"
    /\ ~(ai # <<>> /\ aj # <<>>)
    /\ phase' = "done"
    /\ UNCHANGED <<ai, aj, sc, out, moves, matched>>
    /\ UNCHANGED logVars
    /\ UNCHANGED preVars

\* lines 118-121
PSEnter ==
    /\ phase = "start"
    /\ ai # <<>> /\ aj # <<>>
    /\ out' = [out EXCEPT !.total = @ + Len(ai) * Len(aj)]
    /\ sc' = PSInit(out.count)
    /\ phase' = "ps"
    /\ UNCHANGED <<ai, aj, moves, matched>>
    /\ UNCHANGED logVars
    /\ UNCHANGED preVars

\* lines 122-128, one iteration
PSIter ==
    /\ phase = "ps"
    /\ ~PSDone(ai, sc)
    /\ sc' = PSStep(ai, aj, sc)
    /\ moves' = moves + Moved(sc, sc')
    /\ UNCHANGED <<ai, aj, phase, out, matched>>
    /\ UNCHANGED logVars
    /\ UNCHANGED preVars

\* line 122 fails; lines 164-165
PSExit ==
    /\ phase = "ps"
    /\ PSDone(ai, sc)
    /\ out' = [out EXCEPT !.count = sc.count]
    /\ sc' = FIFOInit(out.times0)
    /\ phase' = "fifo"
    /\ moves' = 0
    /\ UNCHANGED <<ai, aj, matched>>
    /\ UNCHANGED logVars
    /\ UNCHANGED preVars

\* lines 166-173, one iteration
FIFOIter ==
    /\ phase = "fifo"
    /\ ~FIFODone(ai, sc)
    /\ sc' = FIFOStep(ai, aj, sc)
    /\ moves' = moves + Moved(sc, sc')
    /\ matched' = IF Len(sc'.times) > Len(sc.times)
                  THEN [matched EXCEPT !.fifo = Append(@, <<sc.k, sc.z>>)]
                  ELSE matched
    /\ UNCHANGED <<ai, aj, phase, out>>
    /\ UNCHANGED logVars
    /\ UNCHANGED preVars

\* line 166 fails; lines 175-176
FIFOExit ==
    /\ phase = "fifo"
    /\ FIFODone(ai, sc)
    /\ out' = [out EXCEPT !.times0 = sc.times]
    /\ sc' = LIFOInit(ai, aj, out.times1)
    /\ phase' = "lifo"
    /\ moves' = 0
    /\ UNCHANGED <<ai, aj, matched>>
    /\ UNCHANGED logVars
    /\ UNCHANGED preVars

\* lines 177-184, one iteration
LIFOIter ==
    /\ phase = "lifo"
    /\ ~LIFODone(sc)
    /\ sc' = LIFOStep(ai, aj, sc)
    /\ moves' = moves + Moved(sc, sc')
    /\ matched' = IF Len(sc'.times) > Len(sc.times)
                  THEN [matched EXCEPT !.lifo = Append(@, <<sc.k, sc.z>>)]
                  ELSE matched
    /\ UNCHANGED <<ai, aj, phase, out>>
    /\ UNCHANGED logVars
    /\ UNCHANGED preVars

\* line 177 fails: the trace is done
LIFOExit ==
    /\ phase = "lifo"
    /\ LIFODone(sc)
    /\ out' = [out EXCEPT !.times1 = sc.times]
    /\ phase' = "done"
    /\ UNCHANGED <<ai, aj, sc, moves, matched>>
    /\ UNCHANGED logVars
    /\ UNCHANGED preVars

ScanNext ==
    \/ ScanSkip
    \/ PSEnter
    \/ PSIter
    \/ PSExit
    \/ FIFOIter
    \/ FIFOExit
    \/ LIFOIter
    \/ LIFOExit

\* The code is one sequential thread: a loop that can go on does go on
ScanSpec == ScanInit /\ [][ScanNext]_vars /\ WF_vars(ScanNext)

----------------------------------------------------------------------------
(* PreSpec: preprocess_log and apply, each called once on a raw log.       *)
(* The log is an event log already (converter.apply, line 81, leaves such  *)
(* a log as it is); the time of an event is a datetime of minutes and      *)
(* seconds.                                                                *)

DateTimes == [min : 0..MaxMinute, sec : {0, 30}]

\* datetime.timestamp(): the seconds since the epoch
Timestamp(dt) == 60 * dt.min + dt.sec

RawEvents == [act : Labels, time : DateTimes]

RawLogs == SeqsOf(SeqsOf(RawEvents, 0, MaxCaseLen), 0, MaxCases)

\* lines 85-87: the records of one case, with the index of each event
TraceStream(trace) ==
    [n \in DOMAIN trace |->
        [act |-> trace[n].act, ts |-> Timestamp(trace[n].time), idx |-> n - 1]]

\* line 88: the sort key (x[timestamp_key], x[index_key]), compared as tuples
KeyLess(x, y) == x.ts < y.ts \/ (x.ts = y.ts /\ x.idx < y.idx)

\* sorted(): the record x put into the sorted list srt
RECURSIVE Insert(_, _)
Insert(x, srt) ==
    IF srt = <<>> THEN <<x>>
    ELSE IF KeyLess(x, Head(srt)) THEN <<x>> \o srt
    ELSE <<Head(srt)>> \o Insert(x, Tail(srt))

\* line 88: sorted(trace_stream, key=...)
RECURSIVE Sorted(_)
Sorted(stream) ==
    IF stream = <<>> THEN <<>> ELSE Insert(Head(stream), Sorted(Tail(stream)))

\* The names a function body can read besides its own locals: the globals
\* of the module (lines 1-19 and the four def statements)
ModuleGlobals ==
    {"exec_utils", "Enum", "constants", "xes_constants", "converter", "cm_util",
     "mean", "np", "Counter", "pd", "Parameters", "DEFAULT_INDEX_KEY", "apply",
     "preprocess_log", "get_precede_succeed_matrix", "get_duration_matrix"}

\* The locals of apply that are bound when line 50 runs (lines 22-47)
ApplyLocals == {"log", "parameters", "activity_key", "timestamp_key"}

PreInit ==
    /\ log \in RawLogs
    /\ pp = [called |-> FALSE]
    /\ ap = [called |-> FALSE]
    /\ IdleLog
    /\ IdleScan

\* preprocess_log(log), lines 67-89: the sorted records are built in the
\* local traces_list; the body ends at line 89 without a return statement,
\* so the call returns None
PreprocessLog ==
    /\ ~pp.called
    /\ pp' = [called |-> TRUE,
              traces_list |-> [c \in DOMAIN log |-> Sorted(TraceStream(log[c]))],
              ret |-> [kind |-> "None"]]
    /\ UNCHANGED <<log, ap>>
    /\ UNCHANGED logVars
    /\ UNCHANGED scanVars

\* apply(log), lines 41-64: nothing before line 50 calls preprocess_log or
\* binds traces_list, and line 50 reads it
Apply ==
    /\ ~ap.called
    /\ ap' = IF "traces_list" \in ApplyLocals \cup ModuleGlobals
             THEN [called |-> TRUE, outcome |-> "returned"]
             ELSE [called |-> TRUE, outcome |-> "NameError", line |-> 50]
    /\ UNCHANGED <<log, pp>>
    /\ UNCHANGED logVars
    /\ UNCHANGED scanVars

PreNext ==
    \/ PreprocessLog
    \/ Apply

PreSpec == PreInit /\ [][PreNext]_vars

----------------------------------------------------------------------------
(* Reference definitions, stated on the log itself *)

\* The timestamps of the occurrences of label x in a trace, in trace order
OccTimes(trace, x) == Timestamps(SelectSeq(trace, LAMBDA e : e.act = x))

\* The positions of the occurrences of label x in a trace
Occurrences(trace, x) == {m \in DOMAIN trace : trace[m].act = x}

\* The (x-occurrence, y-occurrence) pairs of the same trace, as
\* <<trace, position of x, position of y>>
SameTracePairs(tl, x, y) ==
    UNION {{<<t, m, n>> : m \in Occurrences(tl[t], x), n \in Occurrences(tl[t], y)} :
              t \in DOMAIN tl}

\* ... those whose x-occurrence is strictly earlier
StrictlyBefore(tl, x, y) ==
    {p \in SameTracePairs(tl, x, y) : tl[p[1]][p[2]].ts < tl[p[1]][p[3]].ts}

\* ... those whose x-occurrence is earlier or at the same time
NotAfter(tl, x, y) ==
    {p \in SameTracePairs(tl, x, y) : tl[p[1]][p[2]].ts <= tl[p[1]][p[3]].ts}

CoOccur(tl, x, y) == SameTracePairs(tl, x, y) # {}

\* The index of label x in the alphabet acts
IndexOf(acts, x) == CHOOSE n \in DOMAIN acts : acts[n] = x

\* The FIFO matching of the specification: the i-occurrences in increasing
\* time order, each consuming the earliest j-occurrence not yet consumed
\* whose timestamp is strictly greater.  The result is the list of the
\* matched <<i-occurrence, j-occurrence>> positions (0-based).
RECURSIVE RefFIFOFrom(_, _, _, _)
RefFIFOFrom(a, b, n, used) ==
    IF n > Len(a)
    THEN <<>>
    ELSE LET cand == {m \in DOMAIN b : m \notin used /\ b[m] > a[n]}
         IN  IF cand = {}
             THEN RefFIFOFrom(a, b, n + 1, used)
             ELSE <<(<<n - 1, Min(cand) - 1>>)>> \o
                  RefFIFOFrom(a, b, n + 1, used \cup {Min(cand)})

RefFIFO(a, b) == RefFIFOFrom(a, b, 1, {})

\* The LIFO matching of the specification: the i-occurrences in decreasing
\* time order, each consuming the latest j-occurrence not yet consumed
\* whose timestamp is after it.
RECURSIVE RefLIFOFrom(_, _, _, _)
RefLIFOFrom(a, b, n, used) ==
    IF n < 1
    THEN <<>>
    ELSE LET cand == {m \in DOMAIN b : m \notin used /\ b[m] > a[n]}
         IN  IF cand = {}
             THEN RefLIFOFrom(a, b, n - 1, used)
             ELSE <<(<<n - 1, Max(cand) - 1>>)>> \o
                  RefLIFOFrom(a, b, n - 1, used \cup {Max(cand)})

RefLIFO(a, b) == RefLIFOFrom(a, b, Len(a), {})

\* The gaps of a matching, in its order
Gaps(a, b, m) == [n \in DOMAIN m |-> b[m[n][2] + 1] - a[m[n][1] + 1]]

\* The multiset of the elements of a sequence
BagOf(s) == [g \in Range(s) |-> Cardinality({n \in DOMAIN s : s[n] = g})]

\* The mean of the gaps of the reference matchings pooled over the traces in
\* which both labels occur; 0 for no gap at all
RefMean(tl, x, y, fifo) ==
    LET gaps(t) == LET a == OccTimes(tl[t], x)
                       b == OccTimes(tl[t], y)
                   IN  Gaps(a, b, IF fifo THEN RefFIFO(a, b) ELSE RefLIFO(a, b))
        total == SumSeq([t \in DOMAIN tl |-> SumSeq(gaps(t))])
        number == SumSeq([t \in DOMAIN tl |-> Len(gaps(t))])
    IN  IF number = 0 THEN Zero ELSE <<total, number>>

----------------------------------------------------------------------------
(* Claims about the estimators (Spec) *)

\* C1: in the matrix returned by get_precede_succeed_matrix,
\* PS[i][j] + PS[j][i] = 1 for all i # j and PS[i][i] = 0 for all i, whether
\* or not the two activities ever occur in the same trace.
C1_PSComplementary ==
    \A i, j \in DOMAIN activities :
        IF i = j
        THEN RatEq(PS_matrix[i][i], Zero)
        ELSE PS_matrix[i][j][1] * PS_matrix[j][i][2] + PS_matrix[j][i][1] * PS_matrix[i][j][2]
                 = PS_matrix[i][j][2] * PS_matrix[j][i][2]

\* C1 witness: the matrix of a log with two activities that never co-occur
C1_Witness ==
    /\ Len(activities) = 2
    /\ Len(traces_list) >= 3
    /\ ~CoOccur(traces_list, activities[1], activities[2])

\* C2: for i < j the scan's count is the naive number of same-trace
\* (i-occurrence, j-occurrence) pairs with the i-timestamp strictly smaller,
\* its total is the sum of |ai| * |aj| over the traces, and PS[i][j] is
\* count / total when total > 0.
C2_ScanEqualsNaive ==
    \A i, j \in DOMAIN activities :
        (i < j /\ CoOccur(traces_list, activities[i], activities[j])) =>
            PS_matrix[i][j] =
                <<Cardinality(StrictlyBefore(traces_list, activities[i], activities[j])),
                  Cardinality(SameTracePairs(traces_list, activities[i], activities[j]))>>

\* C2 witness: two traces hold both activities, so count and total are sums
\* over traces, and some but not all pairs are in the order i before j
C2_Witness ==
    /\ Len(activities) = 2
    /\ Len(traces_list) = 2
    /\ \A t \in 1..2 : \A x \in Labels : OccTimes(traces_list[t], x) # <<>>
    /\ PS_matrix[1][2][1] > 0
    /\ PS_matrix[1][2][1] < PS_matrix[1][2][2]

\* C3 as stated: for every ordered pair (i, j) of co-occurring activities, in
\* either index order, PS[i][j] is the fraction of same-trace pairs whose
\* i-occurrence is strictly earlier (a tie is not "i precedes j").
C3_StrictFractionBothOrders ==
    \A i, j \in DOMAIN activities :
        (i # j /\ CoOccur(traces_list, activities[i], activities[j])) =>
            RatEq(PS_matrix[i][j],
                  <<Cardinality(StrictlyBefore(traces_list, activities[i], activities[j])),
                    Cardinality(SameTracePairs(traces_list, activities[i], activities[j]))>>)

\* C3 amended: for i < j, PS[i][j] is the fraction of pairs whose
\* i-occurrence is strictly earlier; for i > j, PS[i][j] = 1 - PS[j][i] is
\* the fraction of pairs whose i-occurrence is earlier or at the same time.
C3_TiesGoToLargerIndex ==
    \A i, j \in DOMAIN activities :
        (i # j /\ CoOccur(traces_list, activities[i], activities[j])) =>
            RatEq(PS_matrix[i][j],
                  <<Cardinality(IF i < j
                                THEN StrictlyBefore(traces_list, activities[i], activities[j])
                                ELSE NotAfter(traces_list, activities[i], activities[j])),
                    Cardinality(SameTracePairs(traces_list, activities[i], activities[j]))>>)

\* C3 witness: the two activities occur at the same timestamp in one trace
\* and in both strict orders elsewhere
C3_Witness ==
    /\ Len(activities) = 2
    /\ NotAfter(traces_list, 2, 1) # StrictlyBefore(traces_list, 2, 1)
    /\ StrictlyBefore(traces_list, 2, 1) # {}
    /\ StrictlyBefore(traces_list, 1, 2) # {}

\* C4: for activities i < j that never occur in the same trace,
\* PS[i][j] = 0, PS[j][i] = 1 and Duration[i][j] = Duration[j][i] = 0.
C4_NeverCoOccurDefaults ==
    \A i, j \in DOMAIN activities :
        (i < j /\ ~CoOccur(traces_list, activities[i], activities[j])) =>
            /\ RatEq(PS_matrix[i][j], Zero)
            /\ RatEq(PS_matrix[j][i], One)
            /\ RatEq(duration_matrix[i][j], Zero)
            /\ RatEq(duration_matrix[j][i], Zero)

\* C4 witness: a log of four one-activity traces over two activities
C4_Witness ==
    /\ Len(activities) = 2
    /\ Len(traces_list) = MaxEvents
    /\ ~CoOccur(traces_list, activities[1], activities[2])

\* C7: Duration[i][i] = 0, and for i # j Duration[i][j] is the smaller of
\* the mean FIFO gap and the mean LIFO gap, the gaps pooled over all traces
\* in which both activities occur and the mean of no gap taken as 0.
C7_DurationIsMinOfMeans ==
    \A i, j \in DOMAIN activities :
        IF i = j
        THEN RatEq(duration_matrix[i][i], Zero)
        ELSE LET f == RefMean(traces_list, activities[i], activities[j], TRUE)
                 l == RefMean(traces_list, activities[i], activities[j], FALSE)
                 d == duration_matrix[i][j]
             IN  /\ RatLeq(d, f) /\ RatLeq(d, l)
                 /\ RatEq(d, f) \/ RatEq(d, l)

\* C7 witness: two traces contribute gaps of different length to the same
\* cell, whose value is the mean 3/2 of neither trace alone
C7_Witness ==
    /\ Len(activities) = 2
    /\ Len(traces_list) = 2
    /\ \A t \in 1..2 : StrictlyBefore(<<traces_list[t]>>, 1, 2) # {}
    /\ RatEq(duration_matrix[1][2], <<3, 2>>)

\* Every occurrence of x in the trace is strictly earlier than every
\* occurrence of y
AlwaysBefore(trace, x, y) ==
    \A m, n \in DOMAIN trace :
        (trace[m].act = x /\ trace[n].act = y) => trace[m].ts < trace[n].ts

\* The log without its last trace
Front(tl) == SubSeq(tl, 1, Len(tl) - 1)

\* C8: when a trace in which every occurrence of i is strictly earlier than
\* every occurrence of j is added to a log, PS[i][j] of the extended log is
\* not smaller than PS[i][j] of the log, in either index order and also
\* when i and j did not co-occur before.
C8_Monotone ==
    [][\A x, y \in Range(activities) :
          (x # y /\ AlwaysBefore(traces_list'[Len(traces_list')], x, y)) =>
              RatLeq(PS_matrix[IndexOf(activities, x)][IndexOf(activities, y)],
                     PS_matrix'[IndexOf(activities', x)][IndexOf(activities', y)])]_vars

\* C8 witness: the matrix of a log whose last trace has every occurrence of
\* label 2 before every occurrence of label 1, after a log in which the two
\* co-occurred the other way round
C8_Witness ==
    /\ Len(traces_list) >= 2
    /\ AlwaysBefore(traces_list[Len(traces_list)], 2, 1)
    /\ CoOccur(<<traces_list[Len(traces_list)]>>, 2, 1)
    /\ StrictlyBefore(Front(traces_list), 1, 2) # {}

----------------------------------------------------------------------------
(* Claims about the scans of one trace (ScanSpec) *)

\* C5: on lists that are non-empty and in non-decreasing order, the FIFO
\* pass records exactly the gaps of the reference matching: the
\* i-occurrences in increasing time order, each consuming the earliest
\* j-occurrence not yet consumed whose timestamp is strictly greater; an
\* i-occurrence without such a j-occurrence records nothing, and every
\* j-occurrence is consumed at most once.
C5_FIFOIsReferenceMatching ==
    phase \in {"lifo", "done"} /\ ai # <<>> /\ aj # <<>> =>
        /\ matched.fifo = RefFIFO(ai, aj)
        /\ out.times0 = Gaps(ai, aj, RefFIFO(ai, aj))
        /\ \A m, n \in DOMAIN matched.fifo :
               m # n => /\ matched.fifo[m][1] # matched.fifo[n][1]
                        /\ matched.fifo[m][2] # matched.fifo[n][2]

\* C5 witness: the FIFO pass is over; it passed a j-occurrence before its
\* first match and left an i-occurrence without a match
C5_Witness ==
    /\ phase = "lifo"
    /\ Len(ai) = 2 /\ Len(aj) = 2
    /\ Len(out.times0) = 1
    /\ matched.fifo[1] = <<0, 1>>

\* C6: on lists that are non-empty and in non-decreasing order, the LIFO
\* pass, which goes through the j-occurrences from the last and consumes
\* i-occurrences, records the same multiset of gaps as the matching of the
\* specification: the i-occurrences in decreasing time order, each consuming
\* the latest j-occurrence not yet consumed whose timestamp is after it.
C6_LIFOIsReferenceMatching ==
    phase = "done" /\ ai # <<>> /\ aj # <<>> =>
        BagOf(out.times1) = BagOf(Gaps(ai, aj, RefLIFO(ai, aj)))

\* C6 witness: the case A@0, B@1, A@2, B@3, matched (A@2, B@3), (A@0, B@1)
C6_Witness ==
    /\ phase = "done"
    /\ ai = <<0, 2>> /\ aj = <<1, 3>>
    /\ matched.lifo = <<(<<1, 1>>), (<<0, 0>>)>>
    /\ out.times1 = <<1, 1>>

\* C10: in each scan both pointers move in one direction only (forward in
\* the precedence and FIFO scans, backward in the LIFO scan), the pointer
\* moves of one scan number at most |ai| + |aj|, and every scan terminates.
C10_MonotonePointers ==
    /\ [][phase' = phase =>
             /\ phase \in {"ps", "fifo"} => sc'.k >= sc.k /\ sc'.z >= sc.z
             /\ phase = "lifo" => sc'.k <= sc.k /\ sc'.z <= sc.z]_vars
    /\ [](moves <= Len(ai) + Len(aj))
    /\ <>(phase = "done")

\* C10 witness: a scan that used all |ai| + |aj| moves
C10_Witness ==
    /\ phase = "ps"
    /\ Len(ai) = MaxOcc /\ Len(aj) = MaxOcc
    /\ moves = Len(ai) + Len(aj)

----------------------------------------------------------------------------
(* Claim about the preprocessor (PreSpec) *)

\* s is sorted by (timestamp, original index)
SortedByTimeThenIndex(s) ==
    \A m, n \in DOMAIN s : m < n => KeyLess(s[m], s[n])

\* C9: preprocess_log outputs, for every case of the log, the (activity,
\* timestamp in seconds, original index) records of the case sorted by
\* (timestamp, original index), and this output is the per-case list that
\* apply partitions by activity before building the matrices.
C9_PreprocessOutputFeedsApply ==
    /\ pp.called =>
          /\ pp.ret.kind = "list"
          /\ DOMAIN pp.ret.value = DOMAIN log
          /\ \A c \in DOMAIN log :
                /\ SortedByTimeThenIndex(pp.ret.value[c])
                /\ Range(pp.ret.value[c]) = Range(TraceStream(log[c]))
    /\ ap.called => ap.outcome = "returned"

=============================================================================
